---- MODULE Spec2Model ----
(***************************************************************************)
(* State-machine model of the swarm-agent platform's persistence layer     *)
(* (server/db.ts, both revisions found in the repository) and of the tRPC  *)
(* procedures that call it (server/routers.ts).                            *)
(*                                                                         *)
(* Tables are sequences of rows; a row's id is its index (nanoid() only    *)
(* has to be fresh).  Timestamps are values of `clock`; 0 is SQL NULL.     *)
(***************************************************************************)
EXTENDS Integers, Sequences, FiniteSets, TLC

\* ------------------------------------------------------------------ bounds
MaxTasks == 2
MaxWorkflows == 1
MaxAlerts == 2
MaxMetrics == 2
MaxMessages == 3
MaxClock == 2
MaxConsensus == 2
MaxResults == 3
MaxNodes == 4
MaxAgents == 4
MaxAgentRows == 2
MaxMetricCalls == 2

\* ------------------------------------------------------- program constants
NULL == 0            \* SQL NULL / undefined in a numeric or timestamp column
NullId == "null"     \* SQL NULL / undefined in an id (string) column

TaskStatuses == {"pending", "running", "completed", "failed", "timeout"}
TerminalStatuses == {"completed", "failed", "timeout"}
AlertTypes == {"agent_failure", "task_timeout", "system_error",
               "task_completion", "performance_degradation"}
Patterns == {"hierarchical", "sequential", "concurrent", "round_robin", "mesh"}
\* the enum of workflow.create in the server revision with userId
RouterPatterns_v2 ==
    {"sequential", "concurrent", "hierarchical", "round-robin", "custom"}
AgentTypes == {"reasoning", "execution", "coordination", "analysis"}
AgentStatuses == {"active", "inactive", "error", "maintenance"}
WorkflowStatuses == {"draft", "active", "paused", "archived"}

ConfidencePoints == 100      \* an agent's confidence c stands for c / 100
ConfidenceScale == 10000     \* decimal(5,4): a stored confidence c is c / 10000
NoFinal == [value |-> NullId, confidence |-> NULL]
NoReply == [from |-> "none", kind |-> "none"]    \* no call has returned yet
EmptyId == 0         \* the id '' a varchar key gets when the insert names none

\* result objects a caller may pass to updateTaskStatus (NULL: none)
ReasonCancelled == 1     \* { reason: "cancelled" }
OtherResult == 2         \* any other result object
EmptyObject == 3         \* {}

\* configuration.timeout of a workflow, in ticks of the clock
TaskTimeout == 1

UserIds == {1, 2}        \* ctx.user.id of the callers

\* ids the callers of the API may pass
AgentIds == {"a1", "a2"}
TaskIdInputs == 1..MaxTasks
WorkflowIdInputs == 1..MaxWorkflows

VARIABLES
    workflows,      \* table workflows
    tasks,          \* table tasks
    systemAlerts,   \* table system_alerts
    agentMetrics,   \* table agent_metrics
    clock,          \* new Date() / the database's now()
    agentMessages,  \* table agent_messages (db.ts revision with deliveryStatus)
    messages,       \* table messages (db.ts revision with userId)
    lastRead,       \* ids returned by the latest conversation query, in order
    consensusResults, \* table consensus_results
    collected,      \* ConsensusAggregator: per-agent results, in order received
    final,          \* ConsensusAggregator: final value and confidence
    seqRun,         \* Dispatcher, sequential strategy: one task's run
    concRun,        \* Dispatcher, concurrent strategy: one task's run
    resent,         \* client: <<first, copy>> ids of rows a re-sent request made
    agents,         \* table agents / swarm_agents
    metricCalls,    \* updateAgentMetrics calls: input, row read, written or not
    reply,          \* what the latest call gave back to its caller
    database,       \* getDb(): TRUE a drizzle handle, FALSE null
    alerts,         \* table alerts (schema with userId)
    alertCalls,     \* the createAlert and resolveAlert calls made so far
    users           \* table users

storeVars == <<workflows, tasks, systemAlerts, agentMetrics>>
msgVars == <<agentMessages, messages, lastRead>>
consVars == <<consensusResults>>
voteVars == <<collected, final>>
dispVars == <<seqRun, concRun>>
clientVars == <<resent>>
agentVars == <<agents, metricCalls>>
replyVars == <<reply>>
envVars == <<database>>
alertVars == <<alerts, alertCalls>>
userVars == <<users>>
laterVars == <<agentVars, replyVars, envVars, alertVars, userVars>>
vars == <<storeVars, clock, msgVars, consVars, voteVars, dispVars, clientVars,
          laterVars>>

\* what the operations on one group of tables leave alone
notStore == <<msgVars, consVars, voteVars, dispVars, clientVars, laterVars>>
notMsg == <<storeVars, consVars, voteVars, dispVars, laterVars>>
notCons == <<storeVars, msgVars, voteVars, dispVars, clock, clientVars, laterVars>>
notVote == <<storeVars, msgVars, consVars, dispVars, clock, clientVars, laterVars>>
notDisp == <<storeVars, msgVars, consVars, voteVars, clock, clientVars, laterVars>>
\* ... a call on the workflows table whose reply the caller keeps
notWorkflow == <<tasks, systemAlerts, agentMetrics, clock, msgVars, consVars,
                 voteVars, dispVars, clientVars, agentVars, envVars, alertVars,
                 userVars>>
\* ... a call on the agents table
notAgent == <<storeVars, clock, msgVars, consVars, voteVars, dispVars,
              clientVars, metricCalls, envVars, alertVars, userVars>>
\* ... and a call on the tasks table whose reply the caller keeps
notTask == <<workflows, systemAlerts, agentMetrics, clock, msgVars, consVars,
             voteVars, dispVars, clientVars, agentVars, envVars, alertVars,
                 userVars>>
\* ... the steps of updateAgentMetrics
notMetric == <<storeVars, clock, msgVars, consVars, voteVars, dispVars,
               clientVars, envVars, alertVars, userVars>>
\* ... and a call on the alerts table
notAlert == <<storeVars, clock, msgVars, consVars, voteVars, dispVars,
              clientVars, agentVars, envVars, userVars>>
\* ... a call on the users table
notUser == <<storeVars, clock, msgVars, consVars, voteVars, dispVars,
             clientVars, agentVars, envVars, alertVars>>
\* ... and a call that only returns or throws
notReply == <<storeVars, clock, msgVars, consVars, voteVars, dispVars,
              clientVars, agentVars, envVars, alertVars, userVars>>

\* ------------------------------------------------------------------ helpers
\* JavaScript `x || d` on a number: 0 and undefined (NULL) are falsy
OrDefault(x, d) == IF x = NULL THEN d ELSE x

\* healthScore and successRate are floats: a percentage p is held as the
\* integer p * HealthUnit, and HealthUnit is a multiple of every
\* totalExecutions the calls can add up to, so the division is exact
RECURSIVE Gcd(_, _)
Gcd(a, b) == IF b = 0 THEN a ELSE Gcd(b, a % b)

RECURSIVE LcmUpTo(_)
LcmUpTo(n) == IF n <= 1 THEN 1
              ELSE (LcmUpTo(n - 1) * n) \div Gcd(LcmUpTo(n - 1), n)

HealthUnit == LcmUpTo(2 * MaxMetricCalls)

Percent(p) == p * HealthUnit

\* Math.max(lo, Math.min(hi, x))
Clamp(lo, hi, x) == IF x > hi THEN (IF lo >= hi THEN lo ELSE hi)
                    ELSE IF lo >= x THEN lo ELSE x

\* ------------------------------------------------------------- operations

\* db.insert(workflows).values({...}) of createWorkflow: the row exactly as
\* supplied, status draft
insertWorkflow(orchestrationPattern, nodes, edges, maxRetries) ==
    /\ Len(workflows) < MaxWorkflows
    /\ workflows' = Append(workflows,
          [orchestrationPattern |-> orchestrationPattern,
           nodes |-> nodes,
           edges |-> edges,
           configuration |-> [maxRetries |-> maxRetries],
           status |-> "draft"])

\* db.createWorkflow, its reply dropped by the caller
createWorkflow(orchestrationPattern, nodes, edges, maxRetries) ==
    /\ insertWorkflow(orchestrationPattern, nodes, edges, maxRetries)
    /\ UNCHANGED <<tasks, systemAlerts, agentMetrics, clock, notStore>>

\* workflow.create: zod refuses an orchestrationPattern outside its enum
\* (the five patterns) before createWorkflow is called
workflow_create(input) ==
    /\ IF input.orchestrationPattern \in Patterns
       THEN /\ insertWorkflow(input.orchestrationPattern, input.nodes,
                              input.edges, 3)
            /\ reply' = [from |-> "workflow.create", kind |-> "workflow",
                         input |-> input]
       ELSE /\ reply' = [from |-> "workflow.create", kind |-> "throw",
                         input |-> input]
            /\ UNCHANGED workflows
    /\ UNCHANGED notWorkflow

\* db.createWorkflow (revision with userId): nodes || [], edges || [] (an
\* absent list is the empty list already), status draft, version 1
insertWorkflow_v2(userId, orchestrationPattern, nodes, edges, configuration) ==
    /\ Len(workflows) < MaxWorkflows
    /\ workflows' = Append(workflows,
          [userId |-> userId,
           orchestrationPattern |-> orchestrationPattern,
           nodes |-> nodes,
           edges |-> edges,
           configuration |-> configuration,
           status |-> "draft",
           version |-> 1])

\* db.createWorkflow (revision with userId), its reply dropped by the caller
createWorkflow_v2(userId, orchestrationPattern, nodes, edges, configuration) ==
    /\ insertWorkflow_v2(userId, orchestrationPattern, nodes, edges,
                         configuration)
    /\ UNCHANGED <<tasks, systemAlerts, agentMetrics, clock, notStore>>

\* workflow.create (revision with userId): zod refuses a pattern outside
\* RouterPatterns_v2; createWorkflow then casts the pattern `as any` into
\* the enum column, which holds Patterns: a value outside it makes a strict
\* sql_mode refuse the row (the call throws), otherwise '' is stored
workflow_create_v2(userId, input) ==
    /\ IF input.orchestrationPattern \notin RouterPatterns_v2
       THEN /\ reply' = [from |-> "workflow.create", kind |-> "throw",
                         input |-> input]
            /\ UNCHANGED workflows
       ELSE \E strict \in BOOLEAN :
              IF input.orchestrationPattern \notin Patterns /\ strict
              THEN /\ reply' = [from |-> "workflow.create", kind |-> "throw",
                                input |-> input]
                   /\ UNCHANGED workflows
              ELSE /\ insertWorkflow_v2(userId,
                         IF input.orchestrationPattern \in Patterns
                         THEN input.orchestrationPattern ELSE "",
                         input.nodes, input.edges, EmptyObject)
                   /\ reply' = [from |-> "workflow.create",
                                kind |-> "workflow", input |-> input]
    /\ UNCHANGED notWorkflow

\* (mutant of updateWorkflowStatus) the update also clears the edges
updateWorkflowStatus_ClearsEdges(workflowId, status) ==
    /\ workflows' = [i \in DOMAIN workflows |->
                       IF i = workflowId
                       THEN [workflows[i] EXCEPT !.status = status,
                                                 !.edges = <<>>]
                       ELSE workflows[i]]
    /\ UNCHANGED <<tasks, systemAlerts, agentMetrics, clock, notStore>>

\* db.updateWorkflowStatus: UPDATE workflows SET status = ? WHERE id = ?
updateWorkflowStatus(workflowId, status) ==
    /\ workflows' = [i \in DOMAIN workflows |->
                       IF i = workflowId
                       THEN [workflows[i] EXCEPT !.status = status]
                       ELSE workflows[i]]
    /\ UNCHANGED <<tasks, systemAlerts, agentMetrics, clock, notStore>>

\* db.updateWorkflowStatus (revision with userId): the same statement
updateWorkflowStatus_v2(workflowId, status) ==
    /\ workflows' = [i \in DOMAIN workflows |->
                       IF i = workflowId
                       THEN [workflows[i] EXCEPT !.status = status]
                       ELSE workflows[i]]
    /\ UNCHANGED <<tasks, systemAlerts, agentMetrics, clock, notStore>>

\* db.insert(tasks).values({...}) of createTask: the row as supplied, status
\* pending, retryCount 0
insertTask(workflowId, assignedAgents, priority) ==
    /\ Len(tasks) < MaxTasks
    /\ tasks' = Append(tasks,
          [workflowId |-> workflowId,
           assignedAgents |-> assignedAgents,
           priority |-> OrDefault(priority, 5),
           status |-> "pending",
           consensusMethod |-> "none",
           createdAt |-> clock,
           retryCount |-> 0,
           startedAt |-> NULL,
           completedAt |-> NULL,
           result |-> NULL])

\* db.createTask, its reply dropped by the caller
createTask(workflowId, assignedAgents, priority) ==
    /\ insertTask(workflowId, assignedAgents, priority)
    /\ UNCHANGED <<workflows, systemAlerts, agentMetrics, clock, notStore>>

\* db.createTask with its reply `{ id, ...taskData }`: the id and the
\* caller's own fields (an absent priority stays absent, NULL)
createTask_returning(workflowId, assignedAgents, priority) ==
    /\ insertTask(workflowId, assignedAgents, priority)
    /\ reply' = [from |-> "createTask", kind |-> "task",
                 value |-> [id |-> Len(tasks) + 1,
                            workflowId |-> workflowId,
                            assignedAgents |-> assignedAgents,
                            priority |-> priority]]
    /\ UNCHANGED notTask

\* SELECT ... FROM tasks WHERE id = ? LIMIT 1: the row, or undefined
TaskOrUndefined(taskId) ==
    IF taskId \in DOMAIN tasks
    THEN [from |-> "getTask", kind |-> "task",
          value |-> [id |-> taskId] @@ tasks[taskId]]
    ELSE [from |-> "getTask", kind |-> "undefined"]

\* db.getTask: the row of that id, or undefined
getTask(taskId) ==
    /\ reply' = TaskOrUndefined(taskId)
    /\ UNCHANGED <<tasks, notTask>>

\* task.get (public procedure): db.getTask(input.taskId) goes back to the
\* caller, whoever that is
task_get(caller, taskId) ==
    /\ reply' = [to |-> caller] @@ TaskOrUndefined(taskId)
    /\ UNCHANGED <<tasks, notTask>>

\* task.list (public procedure): db.listTasks(input.userId), the tasks
\* WHERE userId = input.userId
task_list(caller, userId) ==
    /\ reply' = [to |-> caller, from |-> "listTasks", kind |-> "tasks",
                 value |-> {tasks[t] : t \in {x \in DOMAIN tasks :
                                                 tasks[x].userId = userId}}]
    /\ UNCHANGED <<tasks, notTask>>

\* the column assignments updateTaskStatus builds for one row
TaskUpdates(row, status, result) ==
    [row EXCEPT
       !.status = status,
       !.startedAt = IF status = "running" THEN clock ELSE @,
       !.completedAt = IF status \in {"completed", "failed", "timeout"}
                       THEN clock ELSE @,
       !.result = IF result # NULL THEN result ELSE @]

\* (mutant of updateTaskStatus) a task that reaches completed, failed or
\* timeout is removed from the table
updateTaskStatus_RemovesFinished(taskId, status, result) ==
    /\ tasks' = IF taskId \in DOMAIN tasks /\ status \in TerminalStatuses
                THEN SubSeq(tasks, 1, taskId - 1)
                         \o SubSeq(tasks, taskId + 1, Len(tasks))
                ELSE [i \in DOMAIN tasks |->
                        IF i = taskId
                        THEN TaskUpdates(tasks[i], status, result)
                        ELSE tasks[i]]
    /\ UNCHANGED <<workflows, systemAlerts, agentMetrics, clock, notStore>>

\* db.updateTaskStatus: UPDATE tasks SET ... WHERE id = taskId
updateTaskStatus(taskId, status, result) ==
    /\ tasks' = [i \in DOMAIN tasks |->
                   IF i = taskId THEN TaskUpdates(tasks[i], status, result)
                   ELSE tasks[i]]
    /\ UNCHANGED <<workflows, systemAlerts, agentMetrics, clock, notStore>>

\* db.insert(tasks).values({...}) of createTask (revision with userId):
\* priority || 1, result {}, createdAt now()
insertTask_v2(userId, workflowId, assignedAgents, priority) ==
    /\ Len(tasks) < MaxTasks
    /\ tasks' = Append(tasks,
          [userId |-> userId,
           workflowId |-> workflowId,
           assignedAgents |-> assignedAgents,
           priority |-> OrDefault(priority, 1),
           status |-> "pending",
           result |-> EmptyObject,
           startedAt |-> NULL,
           completedAt |-> NULL,
           createdAt |-> clock])

\* db.createTask (revision with userId), its reply dropped by the caller
createTask_v2(userId, workflowId, assignedAgents, priority) ==
    /\ insertTask_v2(userId, workflowId, assignedAgents, priority)
    /\ UNCHANGED <<workflows, systemAlerts, agentMetrics, clock, notStore>>

\* a field of the caller's object, or `absent` when the object lacks it
Field(data, name, absent) ==
    IF name \in DOMAIN data THEN data[name] ELSE absent

\* db.createTask (revision with userId) with its reply `{ id, ...taskData }`
createTask_v2_returning(taskData) ==
    /\ insertTask_v2(taskData.userId, taskData.workflowId,
                     Field(taskData, "assignedAgents", <<>>),
                     Field(taskData, "priority", NULL))
    /\ reply' = [from |-> "createTask", kind |-> "task",
                 value |-> [id |-> Len(tasks) + 1] @@ taskData]
    /\ UNCHANGED notTask

\* ------------------------------------------------------------------ agents
\* db.createAgent: a new agent is active, healthScore 100, no executions
createAgent(name, type) ==
    /\ Len(agents) < MaxAgentRows
    /\ agents' = Append(agents,
          [id |-> Len(agents) + 1,
           name |-> name,
           type |-> type,
           status |-> "active",
           healthScore |-> Percent(100),
           successRate |-> Percent(100),
           totalExecutions |-> 0,
           failedExecutions |-> 0])
    /\ reply' = [from |-> "createAgent", kind |-> "agent",
                 value |-> [id |-> Len(agents) + 1, name |-> name,
                            type |-> type]]
    /\ UNCHANGED notAgent

\* db.createAgent (revision with userId): the values of the insert name no
\* id, and the column swarm_agents.id has no default.  A strict sql_mode
\* refuses the row and the call throws; otherwise the row is stored under
\* the id '' (once: the id is the primary key) and the call returns the id
\* it drew, which no row has.
createAgent_v2(agentData) ==
    /\ Len(agents) < MaxAgentRows
    /\ \E strict \in BOOLEAN :
          IF strict \/ \E a \in DOMAIN agents : agents[a].id = EmptyId
          THEN /\ reply' = [from |-> "createAgent", kind |-> "throw"]
               /\ UNCHANGED agents
          ELSE /\ agents' = Append(agents,
                     [id |-> EmptyId,
                      userId |-> agentData.userId,
                      name |-> agentData.name,
                      type |-> agentData.type,
                      status |-> "active",
                      healthScore |-> 100,
                      successRate |-> 100,
                      totalExecutions |-> 0,
                      failedExecutions |-> 0])
               /\ reply' = [from |-> "createAgent", kind |-> "agent",
                            value |-> [id |-> Len(agents) + 1] @@ agentData]
    /\ UNCHANGED notAgent

\* rows of the agents table with a given id
AgentRows(agentId) == {a \in DOMAIN agents : agents[a].id = agentId}

\* db.getAgent: SELECT ... WHERE id = ? LIMIT 1
getAgent(agentId) ==
    /\ reply' = IF AgentRows(agentId) # {}
                THEN [from |-> "getAgent", kind |-> "agent",
                      value |-> agents[CHOOSE a \in AgentRows(agentId) : TRUE]]
                ELSE [from |-> "getAgent", kind |-> "undefined"]
    /\ UNCHANGED <<agents, notAgent>>

\* db.listAgents: `if (filters?.status) return` the agents of that status;
\* `if (filters?.type) return` the agents of that type; otherwise all agents
listAgents(filters) ==
    /\ reply' = [from |-> "listAgents", kind |-> "agents", input |-> filters,
                 value |->
                    IF "status" \in DOMAIN filters
                    THEN {agents[a] : a \in {x \in DOMAIN agents :
                              agents[x].status = filters.status}}
                    ELSE IF "type" \in DOMAIN filters
                    THEN {agents[a] : a \in {x \in DOMAIN agents :
                              agents[x].type = filters.type}}
                    ELSE {agents[a] : a \in DOMAIN agents}]
    /\ UNCHANGED <<agents, notAgent>>

\* db.updateAgentStatus: UPDATE agents SET status = ? WHERE id = ?
updateAgentStatus(agentId, status) ==
    /\ agents' = [a \in DOMAIN agents |->
                     IF agents[a].id = agentId
                     THEN [agents[a] EXCEPT !.status = status]
                     ELSE agents[a]]
    /\ reply' = [from |-> "updateAgentStatus", kind |-> "undefined"]
    /\ UNCHANGED notAgent

\* the columns updateAgentMetrics would set, with totalExecutions counting
\* the successes only
MetricsUpdate_TotalSkipsFailures(agent, metrics) ==
    LET totalExecutions == OrDefault(agent.totalExecutions, 0)
                             + OrDefault(metrics.successCount, 0)
        failedExecutions == OrDefault(agent.failedExecutions, 0)
                              + OrDefault(metrics.failureCount, 0)
        successRate ==
            IF totalExecutions > 0
            THEN ((totalExecutions - failedExecutions) * Percent(100))
                     \div totalExecutions
            ELSE Percent(100)
    IN  [totalExecutions |-> totalExecutions,
         failedExecutions |-> failedExecutions,
         successRate |-> successRate,
         healthScore |-> Clamp(0, Percent(100), successRate)]

\* the columns updateAgentMetrics sets, computed from the row it read:
\* both counts are added to totalExecutions, failureCount to
\* failedExecutions, successRate is the share of the rest, healthScore is
\* successRate clamped to 0..100
MetricsUpdate(agent, metrics) ==
    LET totalExecutions == OrDefault(agent.totalExecutions, 0)
                             + OrDefault(metrics.successCount, 0)
                             + OrDefault(metrics.failureCount, 0)
        failedExecutions == OrDefault(agent.failedExecutions, 0)
                              + OrDefault(metrics.failureCount, 0)
        successRate ==
            IF totalExecutions > 0
            THEN ((totalExecutions - failedExecutions) * Percent(100))
                     \div totalExecutions
            ELSE Percent(100)
    IN  [totalExecutions |-> totalExecutions,
         failedExecutions |-> failedExecutions,
         successRate |-> successRate,
         healthScore |-> Clamp(0, Percent(100), successRate)]

\* updateAgentMetrics up to `await getAgent(agentId)`: the call holds the row
\* it read; with no such row it throws "Agent not found"
updateAgentMetrics_read(agentId, metrics) ==
    /\ Len(metricCalls) < MaxMetricCalls
    /\ IF AgentRows(agentId) = {}
       THEN /\ reply' = [from |-> "updateAgentMetrics", kind |-> "throw"]
            /\ UNCHANGED metricCalls
       ELSE /\ metricCalls' = Append(metricCalls,
                  [agentId |-> agentId,
                   metrics |-> metrics,
                   agent |-> agents[CHOOSE a \in AgentRows(agentId) : TRUE],
                   written |-> FALSE])
            /\ UNCHANGED reply
    /\ UNCHANGED <<agents, notMetric>>

\* updateAgentMetrics from its UPDATE agents SET ... WHERE id = ? to the end
updateAgentMetrics_write(c) ==
    /\ c \in DOMAIN metricCalls
    /\ ~metricCalls[c].written
    /\ agents' = [a \in DOMAIN agents |->
                     IF agents[a].id = metricCalls[c].agentId
                     THEN MetricsUpdate(metricCalls[c].agent,
                                        metricCalls[c].metrics) @@ agents[a]
                     ELSE agents[a]]
    /\ metricCalls' = [metricCalls EXCEPT ![c].written = TRUE]
    /\ reply' = [from |-> "updateAgentMetrics", kind |-> "undefined"]
    /\ UNCHANGED notMetric

\* `if (!db) throw new Error("Database not available")` before a write
OrThrow(from, write) ==
    IF database
    THEN write
    ELSE /\ reply' = [from |-> from, kind |-> "throw"]
         /\ UNCHANGED notReply

\* `if (!db) return undefined` / `if (!db) return []` before a read
OrReturn(from, nothing, read) ==
    IF database
    THEN read
    ELSE /\ reply' = [from |-> from, kind |-> nothing]
         /\ UNCHANGED notReply

\* db.upsertUser: throws without an openId; `if (!db) { console.warn(...);
\* return; }`; otherwise INSERT ... ON DUPLICATE KEY UPDATE, lastSignedIn
\* new Date() when the caller gave none
upsertUser(user) ==
    IF user.openId = NullId
    THEN /\ reply' = [from |-> "upsertUser", kind |-> "throw"]
         /\ UNCHANGED notReply
    ELSE IF ~database
    THEN /\ reply' = [from |-> "upsertUser", kind |-> "undefined"]
         /\ UNCHANGED notReply
    ELSE /\ users' = {u \in users : u.openId # user.openId}
                        \union {[openId |-> user.openId,
                                 lastSignedIn |-> clock]}
         /\ reply' = [from |-> "upsertUser", kind |-> "undefined"]
         /\ UNCHANGED notUser

\* updateData of updateTaskStatus (revision with userId): completedAt is set
\* for completed and failed only
TaskUpdates_v2(row, status, result) ==
    [row EXCEPT
       !.status = status,
       !.result = IF result # NULL THEN result ELSE @,
       !.completedAt = IF status \in {"completed", "failed"} THEN clock ELSE @,
       !.startedAt = IF status = "running" THEN clock ELSE @]

\* db.updateTaskStatus (revision with userId)
updateTaskStatus_v2(taskId, status, result) ==
    /\ tasks' = [i \in DOMAIN tasks |->
                   IF i = taskId THEN TaskUpdates_v2(tasks[i], status, result)
                   ELSE tasks[i]]
    /\ UNCHANGED <<workflows, systemAlerts, agentMetrics, clock, notStore>>

\* db.createAlert: inserts the alert as supplied, unresolved
createAlert(alertType, relatedAgentId, relatedTaskId) ==
    /\ Len(systemAlerts) < MaxAlerts
    /\ systemAlerts' = Append(systemAlerts,
          [alertType |-> alertType,
           severity |-> "info",
           relatedAgentId |-> relatedAgentId,
           relatedTaskId |-> relatedTaskId,
           isResolved |-> FALSE,
           createdAt |-> clock])
    /\ UNCHANGED <<workflows, tasks, agentMetrics, clock, notStore>>

\* db.recordMetric: inserts one execution record of an agent for a task
recordMetric(agentId, taskId, successFlag) ==
    /\ Len(agentMetrics) < MaxMetrics
    /\ agentMetrics' = Append(agentMetrics,
          [agentId |-> agentId,
           taskId |-> taskId,
           successFlag |-> successFlag,
           timestamp |-> clock])
    /\ UNCHANGED <<workflows, tasks, systemAlerts, clock, notStore>>

\* db.createMessage (revision with deliveryStatus): inserts the message
createMessage(senderId, recipientId, taskId, messageType) ==
    /\ Len(agentMessages) < MaxMessages
    /\ agentMessages' = Append(agentMessages,
          [senderId |-> senderId,
           recipientId |-> recipientId,
           taskId |-> taskId,
           messageType |-> messageType,
           timestamp |-> clock,
           deliveryStatus |-> "pending"])
    /\ UNCHANGED <<messages, lastRead, clock, notMsg>>

\* the orders in which a query may return the rows ids
Orderings(ids) ==
    {p \in [1..Cardinality(ids) -> ids] :
        \A i, j \in 1..Cardinality(ids) : i # j => p[i] # p[j]}

\* .limit(n) of a result list
Limit(rows, n) == IF Len(rows) <= n THEN rows ELSE SubSeq(rows, 1, n)

\* db.getConversationHistory: SELECT ... WHERE taskId = ? LIMIT ?, no ORDER BY,
\* so the database returns the matching rows in an order of its choosing
getConversationHistory(taskId, limit) ==
    /\ \E p \in Orderings({m \in DOMAIN agentMessages :
                               agentMessages[m].taskId = taskId}) :
          lastRead' = Limit(p, limit)
    /\ UNCHANGED <<agentMessages, messages, clock, notMsg, clientVars>>

\* db.createMessage (revision with userId): createdAt defaults to now()
createMessage_v2(senderId, recipientId, taskId, messageType) ==
    /\ Len(messages) < MaxMessages
    /\ messages' = Append(messages,
          [senderId |-> senderId,
           recipientId |-> recipientId,
           taskId |-> taskId,
           messageType |-> messageType,
           createdAt |-> clock])
    /\ UNCHANGED <<agentMessages, lastRead, clock, notMsg>>

\* ORDER BY desc(createdAt): rows with equal createdAt come in any order
DescByCreatedAt(p) ==
    \A i, j \in DOMAIN p :
        i < j => messages[p[i]].createdAt >= messages[p[j]].createdAt

\* db.getTaskMessages: SELECT ... WHERE taskId = ? ORDER BY createdAt DESC
getTaskMessages(taskId) ==
    /\ \E p \in Orderings({m \in DOMAIN messages :
                               messages[m].taskId = taskId}) :
          /\ DescByCreatedAt(p)
          /\ lastRead' = p
    /\ UNCHANGED <<agentMessages, messages, clock, notMsg, clientVars>>

\* db.createAlert (revision with userId): id "alert-" + nanoid(), severity
\* `|| "info"`, resolved false, createdAt defaults to now(); gives back the id
\* and the alertData it was called with
createAlert_v2(alertData) ==
    /\ Len(alerts) < MaxAlerts
    /\ alerts' = Append(alerts,
          [userId |-> alertData.userId,
           alertType |-> alertData.alertType,
           severity |-> IF "severity" \in DOMAIN alertData
                        THEN alertData.severity ELSE "info",
           resolved |-> FALSE,
           createdAt |-> clock,
           resolvedAt |-> NULL])
    /\ reply' = [from |-> "createAlert", kind |-> "alert",
                 value |-> [id |-> Len(alerts) + 1] @@ alertData]
    /\ UNCHANGED notAlert

\* ORDER BY desc(alerts.createdAt): rows with equal createdAt in any order
AlertsDescByCreatedAt(p) ==
    \A i, j \in DOMAIN p :
        i < j => alerts[p[i]].createdAt >= alerts[p[j]].createdAt

\* db.getUnresolvedAlerts: SELECT ... WHERE userId = ? AND resolved = false
\* ORDER BY createdAt DESC
getUnresolvedAlerts(userId) ==
    /\ \E p \in Orderings({a \in DOMAIN alerts :
                               /\ alerts[a].userId = userId
                               /\ ~alerts[a].resolved}) :
          /\ AlertsDescByCreatedAt(p)
          /\ reply' = [from |-> "getUnresolvedAlerts", kind |-> "alerts",
                       input |-> userId,
                       value |-> [i \in DOMAIN p |->
                                     [id |-> p[i]] @@ alerts[p[i]]]]
    /\ UNCHANGED <<alerts, notAlert>>

\* UPDATE alerts SET resolved = true, resolvedAt = now(), on every row
resolveAlert_ResolvesAll(alertId) ==
    /\ alerts' = [a \in DOMAIN alerts |->
                     [alerts[a] EXCEPT !.resolved = TRUE,
                                       !.resolvedAt = clock]]
    /\ reply' = [from |-> "resolveAlert", kind |-> "undefined",
                 input |-> alertId]
    /\ UNCHANGED notAlert

\* db.resolveAlert: UPDATE alerts SET resolved = true, resolvedAt = new Date()
\* WHERE id = ?; nothing is returned
resolveAlert(alertId) ==
    /\ alerts' = [a \in DOMAIN alerts |->
                     IF a = alertId
                     THEN [alerts[a] EXCEPT !.resolved = TRUE,
                                            !.resolvedAt = clock]
                     ELSE alerts[a]]
    /\ reply' = [from |-> "resolveAlert", kind |-> "undefined",
                 input |-> alertId]
    /\ UNCHANGED notAlert

\* time passes between two requests
Tick ==
    /\ clock < MaxClock
    /\ clock' = clock + 1
    /\ UNCHANGED <<storeVars, msgVars, consVars, voteVars, dispVars, clientVars,
                   laterVars>>

\* db.saveConsensusResult: stores the caller's agentResults, finalResult and
\* confidence; `x || d` replaces an absent value, DECIMAL(5,4) keeps four
\* decimals (confidences are counted in ConfidenceScale-ths)
saveConsensusResult(taskId, consensusType, agentResults, finalResult, confidence) ==
    /\ Len(consensusResults) < MaxConsensus
    /\ consensusResults' = Append(consensusResults,
          [taskId |-> taskId,
           consensusType |-> consensusType,
           agentResults |-> agentResults,
           finalResult |-> IF finalResult = NullId THEN "{}" ELSE finalResult,
           confidence |-> OrDefault(confidence, 0)])
    /\ UNCHANGED notCons

\* ----------------------------------------------- ConsensusAggregator: Voting
\* summed confidence and count of the bucket of value v
RECURSIVE BucketConfidence(_, _)
BucketConfidence(results, v) ==
    IF results = <<>> THEN 0
    ELSE (IF Head(results).value = v THEN Head(results).confidence ELSE 0)
         + BucketConfidence(Tail(results), v)

BucketCount(results, v) ==
    Cardinality({i \in DOMAIN results : results[i].value = v})

\* position of the earliest-received result of the bucket of value v
BucketFirst(results, v) ==
    CHOOSE i \in DOMAIN results :
        /\ results[i].value = v
        /\ \A j \in DOMAIN results : results[j].value = v => i <= j

\* bucket v wins over bucket u: larger count, then higher summed
\* confidence, then earlier first result
Beats(results, v, u) ==
    \/ BucketCount(results, v) > BucketCount(results, u)
    \/ /\ BucketCount(results, v) = BucketCount(results, u)
       /\ BucketConfidence(results, v) > BucketConfidence(results, u)
    \/ /\ BucketCount(results, v) = BucketCount(results, u)
       /\ BucketConfidence(results, v) = BucketConfidence(results, u)
       /\ BucketFirst(results, v) < BucketFirst(results, u)

\* one pass over the results in order received, keeping the best bucket
RECURSIVE VotingScan(_, _, _)
VotingScan(results, i, best) ==
    IF i > Len(results) THEN best
    ELSE VotingScan(results, i + 1,
                    IF Beats(results, results[i].value, best)
                    THEN results[i].value ELSE best)

VotingValue(results) == VotingScan(results, 2, results[1].value)

RECURSIVE TotalConfidence(_)
TotalConfidence(results) ==
    IF results = <<>> THEN 0
    ELSE Head(results).confidence + TotalConfidence(Tail(results))

\* (mutant of VotingConfidence) normalized by the summed confidence of all
VotingConfidence_ByTotalConfidence(results) ==
    (BucketConfidence(results, VotingValue(results)) * ConfidenceScale)
        \div TotalConfidence(results)

\* winning bucket's summed confidence normalized by total agents
VotingConfidence(results) ==
    (BucketConfidence(results, VotingValue(results)) * ConfidenceScale)
        \div (Len(results) * ConfidencePoints)

\* a result arrives from an agent
CollectResult(agentId, value, confidence) ==
    /\ final = NoFinal
    /\ Len(collected) < MaxResults
    /\ collected' = Append(collected,
          [agentId |-> agentId, value |-> value, confidence |-> confidence])
    /\ UNCHANGED <<final, notVote>>

\* the completion policy is satisfied: aggregate by Voting
AggregateVoting ==
    /\ final = NoFinal
    /\ collected # <<>>
    /\ final' = [value |-> VotingValue(collected),
                 confidence |-> VotingConfidence(collected)]
    /\ UNCHANGED <<collected, notVote>>

\* ------------------------------------------- Dispatcher: sequential strategy
\* A task not yet dispatched: no node has been dispatched or has returned.
\* returned[i] is "none" while node i has not returned, else "result" or
\* "failed"; input[i] is the node whose output node i received (0: the
\* task's own input).
NoSeqRun ==
    [nodes |-> 0, policy |-> "fail-fast", maxRetries |-> 0,
     status |-> "pending", retryCount |-> 0,
     dispatched |-> {}, returned |-> <<>>, input |-> <<>>]

\* the last node before i that returned a result (0 if none)
RECURSIVE LastSuccess(_, _)
LastSuccess(returned, i) ==
    IF i = 0 THEN 0
    ELSE IF returned[i] = "result" THEN i
    ELSE LastSuccess(returned, i - 1)

\* pending -> running on first dispatch: node 1 receives the task input
SeqDispatch(n, policy, maxRetries) ==
    /\ seqRun.status = "pending"
    /\ seqRun' = [nodes |-> n, policy |-> policy, maxRetries |-> maxRetries,
                  status |-> "running", retryCount |-> 0,
                  dispatched |-> {1},
                  returned |-> [i \in 1..n |-> "none"],
                  input |-> [i \in 1..n |-> 0]]
    /\ UNCHANGED <<concRun, notDisp>>

\* the run after node i has returned `outcome` and the chain goes on:
\* the next node is dispatched with the last successful output, or, past
\* the last node, the task completes (it fails when no node succeeded)
SeqAdvance(run, i, outcome) ==
    LET ret == [run.returned EXCEPT ![i] = outcome]
    IN IF i < run.nodes
       THEN [run EXCEPT !.returned = ret,
                        !.dispatched = @ \cup {i + 1},
                        !.input[i + 1] = LastSuccess(ret, i)]
       ELSE [run EXCEPT !.returned = ret,
                        !.status = IF LastSuccess(ret, i) = 0
                                   THEN "failed" ELSE "completed"]

\* node i returns its result
SeqReturn(i) ==
    /\ seqRun.status = "running"
    /\ i \in seqRun.dispatched
    /\ seqRun.returned[i] = "none"
    /\ seqRun' = SeqAdvance(seqRun, i, "result")
    /\ UNCHANGED <<concRun, notDisp>>

\* (mutant of SeqFail) once the retries are used up the chain goes on
\* whatever the policy
SeqFail_Continues(i) ==
    /\ seqRun.status = "running"
    /\ i \in seqRun.dispatched
    /\ seqRun.returned[i] = "none"
    /\ seqRun' = IF seqRun.retryCount < seqRun.maxRetries
                 THEN [seqRun EXCEPT !.retryCount = @ + 1]
                 ELSE SeqAdvance(seqRun, i, "failed")
    /\ UNCHANGED <<concRun, notDisp>>

\* the agent of node i fails: while retries remain, retryCount goes up and
\* node i alone is invoked again; after that the node has failed for good
\* and fail-fast aborts the chain and fails the task, skip-and-continue
\* goes on with the last successful output
SeqFail(i) ==
    /\ seqRun.status = "running"
    /\ i \in seqRun.dispatched
    /\ seqRun.returned[i] = "none"
    /\ seqRun' = IF seqRun.retryCount < seqRun.maxRetries
                 THEN [seqRun EXCEPT !.retryCount = @ + 1]
                 ELSE IF seqRun.policy = "fail-fast"
                 THEN [seqRun EXCEPT !.returned[i] = "failed",
                                     !.status = "failed"]
                 ELSE SeqAdvance(seqRun, i, "failed")
    /\ UNCHANGED <<concRun, notDisp>>

\* the task's wall-clock deadline elapses before completion
SeqDeadline ==
    /\ seqRun.status = "running"
    /\ seqRun' = [seqRun EXCEPT !.status = "timeout"]
    /\ UNCHANGED <<concRun, notDisp>>

\* ------------------------------------------- Dispatcher: concurrent strategy
NoConcRun ==
    [agents |-> 0, policy |-> "wait-all", status |-> "pending", responded |-> {}]

\* number of responses the completion policy waits for, of n agents
CeilHalf(n) == (n + 1) \div 2

\* (mutant of MajorityThreshold) more than half
MajorityThreshold_MoreThanHalf(n) == n \div 2 + 1

MajorityThreshold(n) == CeilHalf(n) + 1

Threshold(policy, n) ==
    CASE policy = "wait-all" -> n
      [] policy = "wait-majority" -> MajorityThreshold(n)
      [] policy = "wait-first" -> 1

\* all n assigned agents are dispatched at once
ConcDispatch(n, policy) ==
    /\ concRun.status = "pending"
    /\ concRun' = [agents |-> n, policy |-> policy, status |-> "running",
                   responded |-> {}]
    /\ UNCHANGED <<seqRun, notDisp>>

\* agent a responds; the task completes once the policy is satisfied
ConcRespond(a) ==
    /\ concRun.status = "running"
    /\ a \in 1..concRun.agents
    /\ a \notin concRun.responded
    /\ LET resp == concRun.responded \cup {a}
       IN concRun' = [concRun EXCEPT
             !.responded = resp,
             !.status = IF Cardinality(resp)
                             >= Threshold(concRun.policy, concRun.agents)
                        THEN "completed" ELSE @]
    /\ UNCHANGED <<seqRun, notDisp>>

\* the shared wall-clock deadline elapses first
ConcDeadline ==
    /\ concRun.status = "running"
    /\ concRun' = [concRun EXCEPT !.status = "timeout"]
    /\ UNCHANGED <<seqRun, notDisp>>

\* ------------------------------------------------------------ derived views
\* db.getTask / db.getWorkflow: the row with that id, if any
HasTask(t) == t \in DOMAIN tasks
HasWorkflow(w) == w \in DOMAIN workflows

\* agents referenced by a workflow's nodes
NodeAgents(w) == {workflows[w].nodes[i].agentId : i \in DOMAIN workflows[w].nodes}

\* ids of a workflow's nodes
NodeIds(w) == {workflows[w].nodes[i].id : i \in DOMAIN workflows[w].nodes}

\* the tasks of a workflow, those among them assigned to an agent, and the
\* failed executions recorded for a task
TasksOf(w) == {t \in DOMAIN tasks : tasks[t].workflowId = w}
TasksAssignedTo(w, a) ==
    {t \in TasksOf(w) :
        \E i \in DOMAIN tasks[t].assignedAgents : tasks[t].assignedAgents[i] = a}
FailedExecutions(t) ==
    {m \in DOMAIN agentMetrics :
        agentMetrics[m].taskId = t /\ agentMetrics[m].successFlag = FALSE}

\* the records of a task's conversation
Conversation(t) == {m \in DOMAIN agentMessages : agentMessages[m].taskId = t}

\* the agents a task is assigned to
AssignedAgents(t) ==
    {tasks[t].assignedAgents[i] : i \in DOMAIN tasks[t].assignedAgents}

\* the agents a stored message is addressed to: the recipientId column is
\* all a message row says about who receives it
Recipients(m) == {a \in AgentIds : agentMessages[m].recipientId = a}

StatusRank(s) ==
    CASE s = "pending" -> 0
      [] s = "running" -> 1
      [] OTHER -> 2

\* ------------------------------------------------- task lifecycle (Spec)
InitTables ==
    /\ workflows = <<>>
    /\ tasks = <<>>
    /\ systemAlerts = <<>>
    /\ agentMetrics = <<>>
    /\ clock = 1
    /\ agentMessages = <<>>
    /\ messages = <<>>
    /\ lastRead = <<>>
    /\ consensusResults = <<>>
    /\ collected = <<>>
    /\ final = NoFinal
    /\ seqRun = NoSeqRun
    /\ concRun = NoConcRun
    /\ resent = {}
    /\ agents = <<>>
    /\ metricCalls = <<>>
    /\ reply = NoReply
    /\ alerts = <<>>
    /\ alertCalls = [created |-> {}, resolved |-> {}]
    /\ users = {}

\* DATABASE_URL is set and drizzle() gave a handle
Init ==
    /\ InitTables
    /\ database = TRUE

NextCreateTask ==
    \E w \in WorkflowIdInputs : createTask(w, <<"a1">>, NULL)

NextUpdateTaskStatus ==
    \E t \in TaskIdInputs, s \in TaskStatuses : updateTaskStatus(t, s, NULL)

NextCreateAlert ==
    \E ty \in {"task_completion"}, t \in TaskIdInputs : createAlert(ty, NullId, t)

Next ==
    \/ NextCreateTask
    \/ NextUpdateTaskStatus
    \/ NextCreateAlert

Spec == Init /\ [][Next]_vars

\* ------------------------------- workflows, assignment, retries (SpecWork)
RoundRobinNodes ==
    <<[id |-> "node-0", type |-> "agent", agentId |-> "a1"],
      [id |-> "node-1", type |-> "agent", agentId |-> "a2"]>>

WorkCreateWorkflow ==
    \E p \in {"round_robin", "concurrent"}, r \in {1, 2} :
        createWorkflow(p, RoundRobinNodes, <<>>, r)

WorkCreateTask ==
    \E w \in WorkflowIdInputs, ag \in {<<"a1">>, <<"a2">>} :
        createTask(w, ag, NULL)

WorkUpdateTaskStatus ==
    \E t \in TaskIdInputs, s \in {"running", "failed"} :
        updateTaskStatus(t, s, NULL)

WorkRecordMetric ==
    \E a \in AgentIds, t \in TaskIdInputs, f \in BOOLEAN :
        recordMetric(a, t, f)

NextWork ==
    \/ WorkCreateWorkflow
    \/ WorkCreateTask
    \/ WorkUpdateTaskStatus
    \/ WorkRecordMetric

SpecWork == Init /\ [][NextWork]_vars

\* ------------------------------------- agent messages (SpecMsg, FairSpecMsg)
MsgSendMessage ==
    \E sn \in AgentIds, rc \in {"a2", NullId}, t \in TaskIdInputs :
        createMessage(sn, rc, t, "request") /\ UNCHANGED clientVars

MsgGetConversation ==
    \E t \in TaskIdInputs, n \in {1, 100} : getConversationHistory(t, n)

NextMsg ==
    \/ MsgSendMessage
    \/ MsgGetConversation

SpecMsg == Init /\ [][NextMsg]_vars

\* every request the server accepts is eventually processed
FairSpecMsg == SpecMsg /\ WF_vars(NextMsg)

\* ----------------------------------- task messages, newest first (SpecMsg2)
Msg2Send ==
    \E sn \in AgentIds, rc \in {"a2", NullId} :
        createMessage_v2(sn, rc, 1, "request") /\ UNCHANGED clientVars

Msg2List == \E t \in {1} : getTaskMessages(t)

NextMsg2 ==
    \/ Msg2Send
    \/ Msg2List
    \/ Tick

SpecMsg2 == Init /\ [][NextMsg2]_vars

\* ---------------------------------------- stored consensus results (SpecCons)
ResultLists ==
    {<<[agentId |-> "a1", value |-> "A", confidence |-> 90],
       [agentId |-> "a2", value |-> "A", confidence |-> 60],
       [agentId |-> "a3", value |-> "B", confidence |-> 95]>>,
     <<[agentId |-> "a1", value |-> "B", confidence |-> 60],
       [agentId |-> "a2", value |-> "A", confidence |-> 60]>>,
     <<>>}

ConsSave ==
    \E ty \in {"voting", "judge_based"}, rs \in ResultLists,
       fr \in {"A", "B", NullId}, cf \in {NULL, 5000, 6122} :
        saveConsensusResult(1, ty, rs, fr, cf)

NextCons == ConsSave

SpecCons == Init /\ [][NextCons]_vars

\* ---------------------------------------------- voting aggregation (SpecVote)
VoteAgents == <<"a1", "a2", "a3", "a4", "a5">>

Scenario ==
    <<[agentId |-> "a1", value |-> "A", confidence |-> 90],
      [agentId |-> "a2", value |-> "A", confidence |-> 60],
      [agentId |-> "a3", value |-> "B", confidence |-> 95]>>

VoteCollect ==
    \E v \in {"A", "B"}, c \in {60, 90, 95} :
        CollectResult(VoteAgents[Len(collected) + 1], v, c)

NextVote ==
    \/ VoteCollect
    \/ AggregateVoting

SpecVote == Init /\ [][NextVote]_vars

\* ------------------------------------------- sequential dispatch (SpecSeq)
SeqStart ==
    \E n \in 2..MaxNodes, p \in {"fail-fast", "skip-and-continue"},
       r \in {0, 1} :
        SeqDispatch(n, p, r)

SeqNodeReturns == \E i \in 1..MaxNodes : SeqReturn(i)

SeqNodeFails == \E i \in 1..MaxNodes : SeqFail(i)

NextSeq ==
    \/ SeqStart
    \/ SeqNodeReturns
    \/ SeqNodeFails
    \/ SeqDeadline

SpecSeq == Init /\ [][NextSeq]_vars

\* ------------------------------------------ concurrent dispatch (SpecConc)
ConcStart ==
    \E n \in 1..MaxAgents, p \in {"wait-all", "wait-majority", "wait-first"} :
        ConcDispatch(n, p)

ConcAgentResponds == \E a \in 1..MaxAgents : ConcRespond(a)

NextConc ==
    \/ ConcStart
    \/ ConcAgentResponds
    \/ ConcDeadline

SpecConc == Init /\ [][NextConc]_vars

\* ------------------------------------------- re-sent requests (SpecResend)
\* communicationRouter.sendMessage, a request sent for the first time
ResendFirst ==
    \E sn \in AgentIds, rc \in {"a2", NullId}, t \in TaskIdInputs :
        createMessage(sn, rc, t, "request") /\ UNCHANGED clientVars

\* the client sends again the request that made row m (same input): the
\* procedure runs createMessage once more, which draws a fresh id
ResendRetry ==
    \E m \in DOMAIN agentMessages :
        /\ createMessage(agentMessages[m].senderId, agentMessages[m].recipientId,
                         agentMessages[m].taskId, agentMessages[m].messageType)
        /\ resent' = resent \cup {<<m, Len(agentMessages) + 1>>}

ResendGetConversation ==
    \E t \in TaskIdInputs : getConversationHistory(t, 100)

NextResend ==
    \/ ResendFirst
    \/ ResendRetry
    \/ ResendGetConversation

SpecResend == Init /\ [][NextResend]_vars

\* ------------------------------------------ broadcast messages (SpecBcast)
BcastCreateTask ==
    \E w \in WorkflowIdInputs, ag \in {<<"a1">>, <<"a1", "a2">>} :
        createTask(w, ag, NULL)

BcastSendMessage ==
    \E sn \in AgentIds, rc \in {"a2", NullId}, t \in TaskIdInputs,
       ty \in {"request", "broadcast"} :
        createMessage(sn, rc, t, ty) /\ UNCHANGED clientVars

NextBcast ==
    \/ BcastCreateTask
    \/ BcastSendMessage

SpecBcast == Init /\ [][NextBcast]_vars

\* ------------------------------------------------ cancellation (SpecCancel)
CancelCreateTask ==
    \E w \in WorkflowIdInputs : createTask(w, <<"a1">>, NULL)

\* a caller cancels a pending or running task: the one call that can record
\* it is task.updateStatus with status failed and the reason as result
CancelTask ==
    \E t \in TaskIdInputs :
        /\ HasTask(t)
        /\ tasks[t].status \in {"pending", "running"}
        /\ updateTaskStatus(t, "failed", ReasonCancelled)

CancelUpdateStatus ==
    \E t \in TaskIdInputs, s \in {"running", "completed"},
       r \in {NULL, OtherResult} :
        updateTaskStatus(t, s, r)

CancelSendMessage ==
    \E t \in TaskIdInputs :
        createMessage("a1", "a2", t, "response") /\ UNCHANGED clientVars

NextCancel ==
    \/ CancelCreateTask
    \/ CancelTask
    \/ CancelUpdateStatus
    \/ CancelSendMessage

SpecCancel == Init /\ [][NextCancel]_vars

\* ------------------------------------------------- deadlines (SpecDeadline)
DeadlineCreateTask ==
    \E u \in {1}, w \in WorkflowIdInputs : createTask_v2(u, w, <<"a1">>, NULL)

DeadlineUpdateStatus ==
    \E t \in TaskIdInputs, s \in {"running", "completed", "failed", "timeout"} :
        updateTaskStatus_v2(t, s, NULL)

NextDeadline ==
    \/ DeadlineCreateTask
    \/ DeadlineUpdateStatus
    \/ Tick

SpecDeadline == Init /\ [][NextDeadline]_vars

\* ------------------------------------------- workflow graphs (SpecGraph)
\* node and edge lists callers pass: the lists of the seed script and of the
\* test suite's testWorkflowData (whose edge names a node the list lacks)
SeedEdges == <<[source |-> "node-0", target |-> "node-1"]>>
TestNodes == <<[id |-> "node1", type |-> "agent", agentId |-> NullId]>>
TestEdges == <<[source |-> "node1", target |-> "node2"]>>

Graphs ==
    {[nodes |-> RoundRobinNodes, edges |-> <<>>],
     [nodes |-> RoundRobinNodes, edges |-> SeedEdges],
     [nodes |-> TestNodes, edges |-> TestEdges],
     [nodes |-> <<>>, edges |-> <<>>]}

GraphCreateWorkflow ==
    \E p \in Patterns, g \in Graphs, r \in {1, 3} :
        createWorkflow(p, g.nodes, g.edges, r)

GraphUpdateStatus ==
    \E w \in WorkflowIdInputs, s \in WorkflowStatuses :
        updateWorkflowStatus(w, s)

NextGraph ==
    \/ GraphCreateWorkflow
    \/ GraphUpdateStatus

SpecGraph == Init /\ [][NextGraph]_vars

\* ------------------- workflows and their tasks, per user (SpecGraph2)
SeedConfiguration == [timeout |-> TaskTimeout, maxRetries |-> 3]

Graph2CreateWorkflow ==
    \E u \in UserIds, p \in {"sequential", "concurrent"}, g \in Graphs :
        createWorkflow_v2(u, p, g.nodes, g.edges, SeedConfiguration)

Graph2CreateTask ==
    \E u \in UserIds, w \in WorkflowIdInputs,
       ag \in {<<"a1">>, <<"a1", "a3">>} :
        createTask_v2(u, w, ag, NULL)

NextGraph2 ==
    \/ Graph2CreateWorkflow
    \/ Graph2CreateTask

SpecGraph2 == Init /\ [][NextGraph2]_vars

\* ----------------------- what later operations leave alone (SpecFrame)
FrameCreateWorkflow ==
    \E p \in {"sequential", "round_robin"},
       g \in {[nodes |-> RoundRobinNodes, edges |-> SeedEdges],
               [nodes |-> TestNodes, edges |-> TestEdges]} :
        createWorkflow(p, g.nodes, g.edges, 3)

FrameUpdateWorkflowStatus ==
    \E w \in WorkflowIdInputs : updateWorkflowStatus(w, "active")

\* the other revision of the server issues the same statement
FrameUpdateWorkflowStatus2 ==
    \E w \in WorkflowIdInputs : updateWorkflowStatus_v2(w, "paused")

FrameCreateTask == createTask(1, <<"a1">>, NULL)

FrameUpdateTaskStatus ==
    \E t \in TaskIdInputs, s \in {"running", "completed"} :
        updateTaskStatus(t, s, NULL)

FrameSendMessage ==
    createMessage("a1", "a2", 1, "request") /\ UNCHANGED clientVars

NextFrame ==
    \/ FrameCreateWorkflow
    \/ FrameUpdateWorkflowStatus
    \/ FrameUpdateWorkflowStatus2
    \/ FrameCreateTask
    \/ FrameUpdateTaskStatus
    \/ FrameSendMessage

SpecFrame == Init /\ [][NextFrame]_vars

\* --------------------------------- what a new task looks like (SpecNewTask)
NewTaskCreate ==
    \E w \in WorkflowIdInputs, ag \in {<<>>, <<"a1", "a2">>},
       p \in {NULL, 1, 5} :
        createTask_returning(w, ag, p)

NewTaskGet == \E t \in TaskIdInputs : getTask(t)

NewTaskUpdateStatus ==
    \E t \in TaskIdInputs, s \in {"running", "completed"} :
        updateTaskStatus(t, s, NULL)

NextNewTask ==
    \/ NewTaskCreate
    \/ NewTaskGet
    \/ NewTaskUpdateStatus

SpecNewTask == Init /\ [][NextNewTask]_vars

\* ------------------------------- create, then get (SpecRoundTrip)
RoundTripCreateAgent ==
    \E n \in {"n1", "n2"}, ty \in {"analysis", "reasoning"} :
        createAgent_v2([userId |-> 1, name |-> n, type |-> ty])

\* the caller reads back the agent whose id the create returned
RoundTripGetAgent ==
    /\ reply.from = "createAgent"
    /\ reply.kind = "agent"
    /\ getAgent(reply.value.id)

RoundTripCreateTask ==
    \E td \in {[userId |-> 1, workflowId |-> 1],
                [userId |-> 1, workflowId |-> 1, priority |-> 0],
                [userId |-> 1, workflowId |-> 1, priority |-> 5]} :
        createTask_v2_returning(td)

\* the caller reads back the task whose id the create returned
RoundTripGetTask ==
    /\ reply.from = "createTask"
    /\ getTask(reply.value.id)

NextRoundTrip ==
    \/ RoundTripCreateAgent
    \/ RoundTripGetAgent
    \/ RoundTripCreateTask
    \/ RoundTripGetTask

SpecRoundTrip == Init /\ [][NextRoundTrip]_vars

\* --------------------------- accepted orchestration patterns (SpecPattern)
PatternInputs ==
    [orchestrationPattern : Patterns \cup RouterPatterns_v2,
     nodes : {<<>>, RoundRobinNodes},
     edges : {<<>>}]

PatternCreate == \E input \in PatternInputs : workflow_create(input)

PatternCreate2 ==
    \E u \in UserIds, input \in PatternInputs : workflow_create_v2(u, input)

NextPattern ==
    \/ PatternCreate
    \/ PatternCreate2

SpecPattern == Init /\ [][NextPattern]_vars

\* ------------------------------------------ users' data (SpecIsolation)
\* task.create stores the task under ctx.user.id
IsolationCreateTask ==
    \E u \in UserIds, w \in WorkflowIdInputs, as \in {<<>>, <<"a1">>} :
        createTask_v2(u, w, as, NULL)

IsolationGetTask ==
    \E caller \in UserIds, t \in TaskIdInputs : task_get(caller, t)

IsolationListTasks ==
    \E caller \in UserIds, u \in UserIds : task_list(caller, u)

NextIsolation ==
    \/ IsolationCreateTask
    \/ IsolationGetTask
    \/ IsolationListTasks

SpecIsolation == Init /\ [][NextIsolation]_vars

\* ------------------------------------------------- alerts (SpecAlert)
\* alert ids are random strings: a caller knows the ids createAlert gave
\* back, and may pass one that names no alert
AlertIdInputs == DOMAIN alerts \union {MaxAlerts + 1}

\* alerts.create: db.createAlert({userId: ctx.user.id, ...input})
AlertCreate ==
    \E u \in UserIds, d \in {[alertType |-> "agent_failure"],
                             [alertType |-> "task_timeout",
                              severity |-> "critical"]} :
        /\ createAlert_v2([userId |-> u] @@ d)
        /\ alertCalls' = [alertCalls EXCEPT
                             !.created = @ \union {<<Len(alerts) + 1, u>>}]

\* alerts.resolve: db.resolveAlert(input.alertId)
AlertResolve ==
    \E a \in AlertIdInputs :
        /\ resolveAlert(a)
        /\ alertCalls' = [alertCalls EXCEPT !.resolved = @ \union {a}]

\* alerts.getUnresolved: db.getUnresolvedAlerts(input.userId)
AlertGetUnresolved ==
    \E u \in UserIds :
        /\ getUnresolvedAlerts(u)
        /\ UNCHANGED alertCalls

NextAlert ==
    \/ AlertCreate
    \/ AlertResolve
    \/ AlertGetUnresolved
    \/ Tick

SpecAlert == Init /\ [][NextAlert]_vars

\* ------------------------------------------------ agent.list (SpecList)
AgentIdInputs == 1..MaxAgentRows

\* the input of agent.list: status and type are both optional
ListFilters ==
    {<<>>} \union [status : {"active", "inactive"}]
           \union [type : {"reasoning", "analysis"}]
           \union [status : {"active", "inactive"},
                   type : {"reasoning", "analysis"}]

ListCreateAgent ==
    \E ty \in {"reasoning", "analysis"} : createAgent("n1", ty)

ListUpdateAgentStatus ==
    \E a \in AgentIdInputs, st \in {"active", "inactive"} :
        updateAgentStatus(a, st)

ListAgents ==
    \E f \in ListFilters : listAgents(f)

NextList ==
    \/ ListCreateAgent
    \/ ListUpdateAgentStatus
    \/ ListAgents

SpecList == Init /\ [][NextList]_vars

\* ------------------------------------- agent metrics (SpecMetrics)
\* the counts of agent.updateMetrics: both optional numbers
MetricsInputs == [successCount : {NULL, 1}, failureCount : {NULL, 1}]

MetricsCreateAgent == createAgent("n1", "reasoning")

\* a request starts: the handler runs up to its first await
MetricsRead ==
    \E a \in AgentIdInputs, m \in MetricsInputs :
        updateAgentMetrics_read(a, m)

\* a request that was waiting for the database goes on
MetricsWrite ==
    \E c \in 1..MaxMetricCalls : updateAgentMetrics_write(c)

NextMetrics ==
    \/ MetricsCreateAgent
    \/ MetricsRead
    \/ MetricsWrite

SpecMetrics == Init /\ [][NextMetrics]_vars

\* what the calls on agent agentId that have finished were given
RECURSIVE PassedTotal(_, _)
PassedTotal(calls, agentId) ==
    IF calls = <<>> THEN 0
    ELSE (IF Head(calls).agentId = agentId /\ Head(calls).written
          THEN OrDefault(Head(calls).metrics.successCount, 0)
                 + OrDefault(Head(calls).metrics.failureCount, 0)
          ELSE 0) + PassedTotal(Tail(calls), agentId)

RECURSIVE PassedFailures(_, _)
PassedFailures(calls, agentId) ==
    IF calls = <<>> THEN 0
    ELSE (IF Head(calls).agentId = agentId /\ Head(calls).written
          THEN OrDefault(Head(calls).metrics.failureCount, 0)
          ELSE 0) + PassedFailures(Tail(calls), agentId)

\* ----------------------------------- no database available (SpecNoDb)
\* DATABASE_URL may be unset: getDb() then returns null on every call
InitNoDb ==
    /\ InitTables
    /\ database \in BOOLEAN

NoDbUpsertUser ==
    \E o \in {NullId, "o1", "o2"} : upsertUser([openId |-> o])

NoDbCreateAgent ==
    \E ty \in {"reasoning", "analysis"} :
        OrThrow("createAgent", createAgent("n1", ty))

NoDbUpdateAgentStatus ==
    \E a \in AgentIdInputs, st \in {"active", "inactive"} :
        OrThrow("updateAgentStatus", updateAgentStatus(a, st))

NoDbGetAgent ==
    \E a \in AgentIdInputs : OrReturn("getAgent", "undefined", getAgent(a))

NoDbListAgents ==
    \E f \in {<<>>, [status |-> "active"]} :
        OrReturn("listAgents", "empty list", listAgents(f))

NextNoDb ==
    \/ NoDbUpsertUser
    \/ NoDbCreateAgent
    \/ NoDbUpdateAgentStatus
    \/ NoDbGetAgent
    \/ NoDbListAgents

SpecNoDb == InitNoDb /\ [][NextNoDb]_vars

\* ------------------------------------ task timestamps (SpecStamp)
StampCreateTask ==
    \E w \in WorkflowIdInputs : createTask_v2(1, w, <<"a1">>, NULL)

\* tasks.updateStatus: status is any string the column takes, result optional
StampUpdateStatus ==
    \E t \in TaskIdInputs, st \in TaskStatuses, r \in {NULL, OtherResult} :
        updateTaskStatus_v2(t, st, r)

NextStamp ==
    \/ StampCreateTask
    \/ StampUpdateStatus
    \/ Tick

SpecStamp == Init /\ [][NextStamp]_vars

\* ==================================================================== claims

\* C1: a task's status never moves backwards in
\* pending -> running -> {completed, failed, timeout}, and a task in
\* completed, failed or timeout never changes status again.
C1_StatusNeverMovesBack ==
    [][\A t \in DOMAIN tasks :
          /\ StatusRank(tasks'[t].status) >= StatusRank(tasks[t].status)
          /\ tasks[t].status \in TerminalStatuses
                => tasks'[t].status = tasks[t].status]_vars

\* C2: retryCount never exceeds the workflow's maxRetries, every recorded
\* agent-level failure of the task raises retryCount by one, and a failure
\* beyond the maximum leaves the task failed.
C2_RetryCountTracksFailures ==
    \A t \in DOMAIN tasks :
        HasWorkflow(tasks[t].workflowId) =>
            LET max == workflows[tasks[t].workflowId].configuration.maxRetries
                f == Cardinality(FailedExecutions(t))
            IN /\ tasks[t].retryCount <= max
               /\ tasks[t].retryCount = (IF f <= max THEN f ELSE max)
               /\ f > max => tasks[t].status = "failed"

\* C3: a task in completed, failed or timeout always has an alert whose
\* relatedTaskId is that task.
C3_TerminalTaskHasAlert ==
    \A t \in DOMAIN tasks :
        tasks[t].status \in TerminalStatuses =>
            \E a \in DOMAIN systemAlerts : systemAlerts[a].relatedTaskId = t

\* C4: in a round_robin workflow over M agents with K tasks, every agent is
\* assigned floor(K/M) or ceil(K/M) of them.
C4_RoundRobinFair ==
    \A w \in DOMAIN workflows :
        workflows[w].orchestrationPattern = "round_robin" =>
            LET M == Cardinality(NodeAgents(w))
                K == Cardinality(TasksOf(w))
            IN \A a \in NodeAgents(w) :
                 LET n == Cardinality(TasksAssignedTo(w, a))
                 IN n >= K \div M /\ n <= (K + M - 1) \div M

\* C9: every message starts pending, eventually is acknowledged or failed,
\* and its delivery status only moves pending -> delivered -> acknowledged
\* or to failed.
C9_MessageEventuallySettled ==
    /\ [][\A m \in DOMAIN agentMessages' :
            /\ m \notin DOMAIN agentMessages
                  => agentMessages'[m].deliveryStatus = "pending"
            /\ m \in DOMAIN agentMessages
                  => \/ agentMessages'[m].deliveryStatus
                          = agentMessages[m].deliveryStatus
                     \/ <<agentMessages[m].deliveryStatus,
                          agentMessages'[m].deliveryStatus>>
                          \in {<<"pending", "delivered">>,
                               <<"delivered", "acknowledged">>,
                               <<"pending", "failed">>,
                               <<"delivered", "failed">>}]_vars
    /\ \A m \in 1..MaxMessages :
          (m \in DOMAIN agentMessages)
             ~> (/\ m \in DOMAIN agentMessages
                 /\ agentMessages[m].deliveryStatus
                       \in {"acknowledged", "failed"})

\* C10: a read of a task's messages never lists a later-sent message before
\* an earlier-sent one addressed to the same recipient.
C10_ReadIsFifoPerRecipient ==
    \A i, j \in DOMAIN lastRead :
        (i < j /\ messages[lastRead[i]].recipientId
                    = messages[lastRead[j]].recipientId)
            => lastRead[i] < lastRead[j]

C6_MajorityCompletes ==
    (concRun.policy = "wait-majority" /\ concRun.agents >= 1) =>
        LET n == concRun.agents
            r == Cardinality(concRun.responded)
        IN /\ concRun.status = "running" => r < (n + 1) \div 2 + 1
           /\ concRun.status = "completed" => r = (n + 1) \div 2 + 1
           /\ r = n => concRun.status = "completed"

\* C6 (amended): the same, the last part for N >= 2 only: with one agent
\* the threshold ceil(1/2)+1 = 2 is never reached.
C6_MajorityCompletesFromTwo ==
    (concRun.policy = "wait-majority" /\ concRun.agents >= 1) =>
        LET n == concRun.agents
            r == Cardinality(concRun.responded)
        IN /\ concRun.status = "running" => r < (n + 1) \div 2 + 1
           /\ concRun.status = "completed" => r = (n + 1) \div 2 + 1
           /\ (n >= 2 /\ r = n) => concRun.status = "completed"

C6_Witness ==
    /\ concRun.policy = "wait-majority"
    /\ concRun.agents = 4
    /\ concRun.status = "completed"
    /\ Cardinality(concRun.responded) = 3

\* C7: a stored voting result over a non-empty result list has as final
\* value the bucket with the largest count, ties going to the highest summed
\* confidence and then to the earliest-received result; equal result lists
\* give equal final value and confidence.
C7_VotingPicksWinningBucket ==
    /\ \A r \in DOMAIN consensusResults :
          LET row == consensusResults[r]
              rs == row.agentResults
          IN (row.consensusType = "voting" /\ rs # <<>>) =>
                /\ \E i \in DOMAIN rs : rs[i].value = row.finalResult
                /\ \A j \in DOMAIN rs :
                      rs[j].value # row.finalResult
                         => Beats(rs, row.finalResult, rs[j].value)
    /\ \A r1, r2 \in DOMAIN consensusResults :
          LET x == consensusResults[r1]
              y == consensusResults[r2]
          IN (/\ x.consensusType = "voting" /\ y.consensusType = "voting"
              /\ x.agentResults # <<>> /\ x.agentResults = y.agentResults)
                => x.finalResult = y.finalResult /\ x.confidence = y.confidence

C11_ResendLeavesOneCopy ==
    \A t \in TaskIdInputs :
        \A m1, m2 \in Conversation(t) : <<m1, m2>> \notin resent

\* C12: a message without recipientId reaches every agent assigned to its
\* task and no other agent; a message with a recipientId reaches that
\* recipient only.
C12_BroadcastReachesAssigned ==
    \A m \in DOMAIN agentMessages :
        LET msg == agentMessages[m]
        IN IF msg.recipientId # NullId
           THEN Recipients(m) = {msg.recipientId}
           ELSE HasTask(msg.taskId) =>
                   Recipients(m) = AssignedAgents(msg.taskId)

\* C13: a cancelled task is failed with the reason "cancelled" on its
\* record, and from then on it keeps that status and reason (it never
\* reaches completed) and no further message is exchanged for its id.
C13_CancelledStaysCancelled ==
    [][\A t \in DOMAIN tasks :
          (tasks[t].status = "failed" /\ tasks[t].result = ReasonCancelled) =>
              /\ tasks'[t].status = "failed"
              /\ tasks'[t].result = ReasonCancelled
              /\ Conversation(t)' = Conversation(t)]_vars

\* C14: when the deadline of a running task elapses (or has elapsed) the
\* task goes to timeout: it neither stays running nor ends completed or
\* failed.
C14_DeadlineEndsInTimeout ==
    [][\A t \in DOMAIN tasks :
          (/\ tasks[t].status = "running"
           /\ clock' >= tasks[t].startedAt + TaskTimeout)
              => tasks'[t].status = "timeout"]_vars

\* C15: no stored workflow has an edge whose source or target is not the
\* id of one of its own nodes (a create with such an edge stores nothing).
C15_EdgeEndpointsAreNodes ==
    \A w \in DOMAIN workflows :
        \A e \in DOMAIN workflows[w].edges :
            /\ workflows[w].edges[e].source \in NodeIds(w)
            /\ workflows[w].edges[e].target \in NodeIds(w)

\* C18: a workflow is active only after its graph has passed validation:
\* no active workflow has a graph that validation rejects (here, an edge
\* to a node it does not have).
C18_ActiveOnlyIfValidated ==
    \A w \in DOMAIN workflows :
        workflows[w].status = "active" =>
            \A e \in DOMAIN workflows[w].edges :
                {workflows[w].edges[e].source, workflows[w].edges[e].target}
                    \subseteq NodeIds(w)

\* C16: every stored workflow whose orchestrationPattern is concurrent or
\* round_robin has an empty edge set.
C16_IndependentPatternsHaveNoEdges ==
    \A w \in DOMAIN workflows :
        workflows[w].orchestrationPattern \in {"concurrent", "round_robin"}
            => workflows[w].edges = <<>>

\* C17: every stored task names an existing workflow and its assignedAgents
\* are among the agents referenced by that workflow's nodes.
C17_AssignedAgentsInWorkflow ==
    \A t \in DOMAIN tasks :
        /\ HasWorkflow(tasks[t].workflowId)
        /\ AssignedAgents(t) \subseteq NodeAgents(tasks[t].workflowId)

\* C19: once a workflow exists, no later operation changes its nodes, its
\* edges or its orchestrationPattern.
C19_GraphNeverChanges ==
    [][\A w \in DOMAIN workflows :
          /\ w \in DOMAIN workflows'
          /\ workflows'[w].nodes = workflows[w].nodes
          /\ workflows'[w].edges = workflows[w].edges
          /\ workflows'[w].orchestrationPattern
                = workflows[w].orchestrationPattern]_vars

C19_Witness ==
    /\ workflows # <<>>
    /\ workflows[1].status = "active"
    /\ workflows[1].edges = SeedEdges
    /\ tasks # <<>>
    /\ tasks[1].status = "completed"
    /\ agentMessages # <<>>

\* C20: no operation removes a task: a task id that getTask finds is found
\* in every later state, also once the task is completed, failed or
\* timeout.
C20_TaskNeverRemoved ==
    [][\A t \in DOMAIN tasks : HasTask(t)']_vars

C20_Witness ==
    /\ Len(tasks) >= 2
    /\ tasks[1].status = "completed"
    /\ tasks[2].status = "timeout"
    /\ systemAlerts # <<>>

\* C21: the record createTask returns has status "pending", and so has the
\* stored task read back right after the create.
C21_NewTaskIsPending ==
    [][\A t \in DOMAIN tasks' :
          t \notin DOMAIN tasks =>
              /\ tasks'[t].status = "pending"
              /\ reply'.kind = "task"
              /\ "status" \in DOMAIN reply'.value
              /\ reply'.value.status = "pending"]_vars

\* C22: getAgent on the id createAgent returned gives a defined agent with
\* that id and the name and type passed to createAgent; getTask on the id
\* createTask returned gives a task with the workflowId and, when one was
\* supplied, the priority passed to createTask.
C22_CreateThenGet ==
    [][/\ (reply.from = "createAgent" /\ reply.kind = "agent"
           /\ reply'.from = "getAgent") =>
              /\ reply'.kind = "agent"
              /\ reply'.value.id = reply.value.id
              /\ reply'.value.name = reply.value.name
              /\ reply'.value.type = reply.value.type
       /\ (reply.from = "createTask" /\ reply'.from = "getTask") =>
              /\ reply'.kind = "task"
              /\ reply'.value.workflowId = reply.value.workflowId
              /\ "priority" \in DOMAIN reply.value =>
                    reply'.value.priority = reply.value.priority]_vars

\* C23: workflow.create accepts a workflow exactly when its
\* orchestrationPattern is one of the five patterns, and every stored
\* workflow has one of them.
C23_AcceptsTheFivePatterns ==
    /\ reply.from = "workflow.create" =>
          (reply.kind = "workflow"
              <=> reply.input.orchestrationPattern \in Patterns)
    /\ \A w \in DOMAIN workflows :
          workflows[w].orchestrationPattern \in Patterns

\* C24: no query gives a caller a task (likewise an agent, workflow,
\* message or alert) whose userId differs from the caller's user id,
\* whatever ids or userId values the caller passes.
C24_RepliesAreTheCallersOwn ==
    /\ (reply.from = "getTask" /\ reply.kind = "task")
          => reply.value.userId = reply.to
    /\ reply.from = "listTasks"
          => \A row \in reply.value : row.userId = reply.to

\* C25: getUnresolvedAlerts(userId) returns exactly the alerts created for
\* that user and not resolved since; an alert resolveAlert was called on is
\* never returned again; resolveAlert leaves every other alert as it was.
C25_UnresolvedAlertsExactly ==
    /\ [](reply.from = "getUnresolvedAlerts" =>
            /\ {reply.value[i].id : i \in DOMAIN reply.value}
                  = {c[1] : c \in {x \in alertCalls.created :
                                      /\ x[2] = reply.input
                                      /\ x[1] \notin alertCalls.resolved}}
            /\ \A i, j \in DOMAIN reply.value :
                  i # j => reply.value[i].id # reply.value[j].id)
    /\ [][reply'.from = "resolveAlert" =>
             \A a \in DOMAIN alerts :
                 a # reply'.input => (a \in DOMAIN alerts' /\ alerts'[a] = alerts[a])]_vars

\* two alerts of one user, one resolved and the other returned
C25_Witness ==
    /\ reply.from = "getUnresolvedAlerts"
    /\ Len(reply.value) = 1
    /\ \E a \in DOMAIN alerts :
          /\ alerts[a].resolved
          /\ alerts[a].userId = reply.input
          /\ a \in alertCalls.resolved

\* C26: agent.list returns exactly the stored agents that match every
\* filter supplied: the status when given, the type when given, both when
\* both are given, and all agents when none is.
C26_ListMatchesEveryFilter ==
    reply.from = "listAgents" =>
        reply.value =
            {agents[a] : a \in {x \in DOMAIN agents :
                /\ "status" \in DOMAIN reply.input
                      => agents[x].status = reply.input.status
                /\ "type" \in DOMAIN reply.input
                      => agents[x].type = reply.input.type}}

\* C27: every agent's healthScore lies in 0..100 and its failedExecutions
\* is at most its totalExecutions; a new agent has healthScore 100 and no
\* executions; updateAgentMetrics with non-negative counts keeps it so.
C27_HealthScoreInRange ==
    /\ [](\A a \in DOMAIN agents :
            /\ agents[a].healthScore >= Percent(0)
            /\ agents[a].healthScore <= Percent(100)
            /\ agents[a].failedExecutions <= agents[a].totalExecutions)
    /\ [][\A a \in DOMAIN agents' :
             a \notin DOMAIN agents =>
                 /\ agents'[a].healthScore = Percent(100)
                 /\ agents'[a].totalExecutions = 0
                 /\ agents'[a].failedExecutions = 0]_vars

\* an agent with successes and failures, its healthScore between the ends
C27_Witness ==
    \E a \in DOMAIN agents :
        /\ agents[a].failedExecutions > 0
        /\ agents[a].totalExecutions > agents[a].failedExecutions
        /\ agents[a].healthScore > Percent(0)
        /\ agents[a].healthScore < Percent(100)

\* C28: once the updateAgentMetrics calls on an agent have all finished,
\* however their read and write steps interleaved, its totalExecutions is
\* the sum of all counts passed and its failedExecutions the sum of all
\* failureCounts passed (a new agent starts at 0).
C28_NoContributionLost ==
    (\A c \in DOMAIN metricCalls : metricCalls[c].written) =>
        \A a \in DOMAIN agents :
            /\ agents[a].totalExecutions
                  = PassedTotal(metricCalls, agents[a].id)
            /\ agents[a].failedExecutions
                  = PassedFailures(metricCalls, agents[a].id)

\* C29: while getDb() returns null, every read returns undefined or an
\* empty list, every write (upsertUser included) throws, and no call
\* changes the stored state.
C29_NoDatabaseNoSuccess ==
    /\ [](~database =>
            /\ reply.from \in {"getAgent", "listAgents"}
                  => reply.kind \in {"undefined", "empty list"}
            /\ reply.from \in {"createAgent", "updateAgentStatus",
                               "upsertUser"} => reply.kind = "throw")
    /\ [][~database => UNCHANGED <<agents, users>>]_vars

\* C30: a task whose status is completed, failed or timeout has completedAt
\* set; a task that is or has been running has startedAt set; a status
\* update without a result leaves the stored result as it was.
C30_TimestampsFollowStatus ==
    /\ [](\A t \in DOMAIN tasks :
            tasks[t].status \in TerminalStatuses
                => tasks[t].completedAt # NULL)
    /\ [][\A t \in DOMAIN tasks :
             /\ tasks'[t].status = "running" => tasks'[t].startedAt # NULL
             /\ tasks[t].startedAt # NULL => tasks'[t].startedAt # NULL]_vars
    /\ [][\A t \in DOMAIN tasks, st \in TaskStatuses :
             updateTaskStatus_v2(t, st, NULL)
                 => tasks'[t].result = tasks[t].result]_vars

====
